---------------------------- MODULE Spec2Model ----------------------------
(***************************************************************************)
(* The cleaning script Scripts/clean_data.py of TB_Treatment_Dashboard as  *)
(* a state machine: one action per section of the script, the pandas and   *)
(* numpy calls it makes as operators.                                      *)
(*                                                                         *)
(* Numbers are float64 in the script.  Here they are fixed-point integers  *)
(* counting halves (Half units per 1.0), so that the median of two whole   *)
(* numbers is exact.  A cell is a record [k, n, s]: k is "nan", "num" or   *)
(* "str", n the number (in halves) of a "num" cell, s the text of a "str"  *)
(* cell.  Column names are strings; Chars spells them, because lower() and *)
(* the substring test work on characters.                                  *)
(***************************************************************************)
EXTENDS Integers, Sequences, FiniteSets, TLC

VARIABLES source, pc, df, df_clean, rng, stdout, cleaned_csv, sample_csv, run

vars == <<source, pc, df, df_clean, rng, stdout, cleaned_csv, sample_csv, run>>

----------------------------------------------------------------------------
(* Bounds of the model *)

MaxCols == 2

MaxRows == 2

MaxFillRows == 3

MaxRuns == 2

----------------------------------------------------------------------------
(* Cells *)

Half == 2

NaN == [k |-> "nan", n |-> 0, s |-> ""]

Num(x) == [k |-> "num", n |-> x, s |-> ""]

Str(t) == [k |-> "str", n |-> 0, s |-> t]

\* a whole number as a cell
Whole(x) == Num(Half * x)

isnull(c) == c.k = "nan"

----------------------------------------------------------------------------
(* Column names and the str methods the script uses on them *)

TSR == "treatment_success_rate"

DROPOUT == "dropout_rate"

YEAR == "year"

Chars(name) ==
  CASE name = "id" -> <<"i","d">>
    [] name = "Rate" -> <<"R","a","t","e">>
    [] name = "Date" -> <<"D","a","t","e">>
    [] name = "Year" -> <<"Y","e","a","r">>
    [] name = "year" -> <<"y","e","a","r">>
    [] name = "dropout_rate" -> <<"d","r","o","p","o","u","t","_","r","a","t","e">>
    [] name = "treatment_success_rate" ->
         <<"t","r","e","a","t","m","e","n","t","_",
           "s","u","c","c","e","s","s","_","r","a","t","e">>

UpperCase == <<"A","B","C","D","E","F","G","H","I","J","K","L","M",
               "N","O","P","Q","R","S","T","U","V","W","X","Y","Z">>

LowerCase == <<"a","b","c","d","e","f","g","h","i","j","k","l","m",
               "n","o","p","q","r","s","t","u","v","w","x","y","z">>

\* str.lower(), on the characters
lower(cs) ==
  [i \in 1..Len(cs) |->
     IF \E u \in 1..Len(UpperCase) : UpperCase[u] = cs[i]
       THEN LowerCase[CHOOSE u \in 1..Len(UpperCase) : UpperCase[u] = cs[i]]
       ELSE cs[i]]

\* keyword in text
contains(kw, cs) ==
  \E i \in 1..(Len(cs) - Len(kw) + 1) : SubSeq(cs, i, i + Len(kw) - 1) = kw

treatment_keywords ==
  << <<"s","u","c","c","e","s","s">>,
     <<"r","a","t","e">>,
     <<"c","o","m","p","l","e","t","i","o","n">>,
     <<"o","u","t","c","o","m","e">>,
     <<"t","r","e","a","t","m","e","n","t">>,
     <<"c","u","r","e","d">> >>

year_keywords == << <<"y","e","a","r">>, <<"d","a","t","e">> >>

\* any(keyword in col.lower() for keyword in keywords)
matches_any(keywords, col) ==
  \E q \in 1..Len(keywords) : contains(keywords[q], lower(Chars(col)))

----------------------------------------------------------------------------
(* The input file and the DataFrame *)

\* A DataFrame: column labels, one dtype and one sequence of n cells per column.
NoFrame == [columns |-> <<>>, dtypes |-> <<>>, data |-> <<>>, n |-> -1]

NoFile == [header |-> <<>>, rows |-> <<>>, written |-> FALSE]

\* the text of a numeric token, as an object column holds it
token(c) == IF c.k = "num" THEN Str(ToString(c.n \div Half)) ELSE c

\* dtype inference of pd.read_csv: a column whose tokens are all numbers or empty is
\* numeric; a column with a text token, or with no cell at all, is object
infer_dtype(cells) ==
  IF Len(cells) > 0 /\ \A i \in 1..Len(cells) : cells[i].k # "str"
    THEN "number" ELSE "object"

\* pd.read_csv(file_path): rows of tokens become typed columns
read_csv(file) ==
  LET nc == Len(file.header)
      nr == Len(file.rows)
      raw(j) == [i \in 1..nr |-> file.rows[i][j]]
  IN [columns |-> file.header,
      dtypes  |-> [j \in 1..nc |-> infer_dtype(raw(j))],
      data    |-> [j \in 1..nc |->
                     IF infer_dtype(raw(j)) = "number" THEN raw(j)
                     ELSE [i \in 1..nr |-> token(raw(j)[i])]],
      n       |-> nr]

\* df.head(k)
head(d, k) ==
  LET m == IF d.n < k THEN d.n ELSE k
  IN [d EXCEPT !.data = [j \in 1..Len(d.columns) |-> SubSeq(d.data[j], 1, m)],
               !.n = m]

\* df.to_csv(path, index=False): a header line and one line per row
to_csv(d) ==
  [header  |-> d.columns,
   rows    |-> [i \in 1..d.n |-> [j \in 1..Len(d.columns) |-> d.data[j][i]]],
   written |-> TRUE]

\* the positions of the columns labelled name
positions(d, name) == {j \in 1..Len(d.columns) : d.columns[j] = name}

has_column(d, name) == positions(d, name) # {}

\* df.dropna(how='all')
dropna_all(d) ==
  LET nc   == Len(d.columns)
      keep == SelectSeq([i \in 1..d.n |-> i],
                        LAMBDA i : \E j \in 1..nc : ~isnull(d.data[j][i]))
  IN [d EXCEPT !.data = [j \in 1..nc |-> [r \in 1..Len(keep) |-> d.data[j][keep[r]]]],
               !.n = Len(keep)]

\* a median that takes the upper middle value of an even count
median_upper(cells) ==
  LET vals == SelectSeq(cells, LAMBDA c : ~isnull(c))
      srt  == SortSeq(vals, LAMBDA a, b : a.n < b.n)
      m    == Len(srt)
  IN IF m = 0 THEN NaN ELSE srt[m \div 2 + 1]

\* Series.median(): over the non-null values; NaN when there is none
median(cells) ==
  LET vals == SelectSeq(cells, LAMBDA c : ~isnull(c))
      srt  == SortSeq(vals, LAMBDA a, b : a.n < b.n)
      m    == Len(srt)
  IN IF m = 0 THEN NaN
     ELSE IF m % 2 = 1 THEN srt[(m + 1) \div 2]
     ELSE Num((srt[m \div 2].n + srt[m \div 2 + 1].n) \div 2)

\* Series.fillna(value)
fillna(cells, value) ==
  [i \in 1..Len(cells) |-> IF isnull(cells[i]) THEN value ELSE cells[i]]

\* df.rename(columns={old: new})
rename(d, old, new) ==
  [d EXCEPT !.columns = [j \in 1..Len(d.columns) |->
                           IF d.columns[j] = old THEN new ELSE d.columns[j]]]

\* df[name] = cells: in place when the label exists, else a new last column
setitem(d, name, dtype, cells) ==
  IF has_column(d, name)
    THEN LET j == CHOOSE j \in positions(d, name) : TRUE
         IN [d EXCEPT !.dtypes[j] = dtype, !.data[j] = cells]
    ELSE [d EXCEPT !.columns = Append(d.columns, name),
                   !.dtypes  = Append(d.dtypes, dtype),
                   !.data    = Append(d.data, cells)]

\* a clip that bounds from above only
clip_upper(cells, lo, hi) ==
  [i \in 1..Len(cells) |->
     IF isnull(cells[i]) THEN NaN
     ELSE IF cells[i].n > hi THEN Num(hi)
     ELSE cells[i]]

\* Series.clip(lo, hi); NaN stays NaN
clip(cells, lo, hi) ==
  [i \in 1..Len(cells) |->
     IF isnull(cells[i]) THEN NaN
     ELSE IF cells[i].n < lo THEN Num(lo)
     ELSE IF cells[i].n > hi THEN Num(hi)
     ELSE cells[i]]

----------------------------------------------------------------------------
(* numpy's global generator, as a linear congruential generator: what the  *)
(* script relies on is that seed() fixes the state and that every draw is  *)
(* a function of the state and advances it.                                *)

RngMod == 8

RngMul == 5

RngInc == 3

\* the states the generator can start in when nothing seeds it (OS entropy)
Entropy == {1, 4}

\* np.random.seed(seed)
np_random_seed(seed) == seed % RngMod

rk_next(state) == (RngMul * state + RngInc) % RngMod

RECURSIVE rk_states(_, _)
\* the n states the next n draws read
rk_states(state, n) ==
  IF n = 0 THEN <<>> ELSE <<rk_next(state)>> \o rk_states(rk_next(state), n - 1)

RECURSIVE rk_skip(_, _)
\* the state after n draws
rk_skip(state, n) == IF n = 0 THEN state ELSE rk_skip(rk_next(state), n - 1)

\* np.random.uniform(lo, hi, n): n values in [lo, hi)
np_random_uniform(state, lo, hi, n) ==
  [i \in 1..n |-> Num(lo + (rk_states(state, n)[i] * (hi - lo)) \div RngMod)]

\* np.random.choice(a, n): n elements of a
np_random_choice(state, a, n) ==
  [i \in 1..n |-> a[1 + (rk_states(state, n)[i] * Len(a)) \div RngMod]]

----------------------------------------------------------------------------
(* The sections of the script, as operators on the DataFrame *)

Seed == 42

SampleRows == 20

\* a fill that stops after the first numeric column
fill_numeric_first(d) ==
  LET numeric == {j \in 1..Len(d.columns) : d.dtypes[j] = "number"}
  IN [d EXCEPT !.data = [j \in 1..Len(d.columns) |->
        IF j \in numeric /\ \A q \in numeric : j <= q
          THEN fillna(d.data[j], median(d.data[j]))
          ELSE d.data[j]]]

\* lines 104-113: every numeric column with a null gets its own median
fill_numeric(d) ==
  [d EXCEPT !.data = [j \in 1..Len(d.columns) |->
     IF d.dtypes[j] = "number" /\ \E i \in 1..d.n : isnull(d.data[j][i])
       THEN fillna(d.data[j], median(d.data[j]))
       ELSE d.data[j]]]

\* line 124: the columns whose lowercased name contains a treatment keyword
success_cols(d) ==
  SelectSeq(d.columns, LAMBDA col : matches_any(treatment_keywords, col))

\* an inference that takes the last matching column
infer_success_last(d, state) ==
  IF Len(success_cols(d)) > 0
    THEN [frame |-> rename(d, success_cols(d)[Len(success_cols(d))], TSR), state |-> state,
          out |-> <<"found_treatment", "renamed_success">>]
    ELSE LET seeded == np_random_seed(Seed)
         IN [frame |-> setitem(d, TSR, "number",
                               np_random_uniform(seeded, 70 * Half, 95 * Half, d.n)),
             state |-> rk_skip(seeded, d.n),
             out   |-> <<"no_treatment", "created_success">>]

\* an inference that draws the column without seeding the generator
infer_success_unseeded(d, state) ==
  IF Len(success_cols(d)) > 0
    THEN [frame |-> rename(d, success_cols(d)[1], TSR), state |-> state,
          out |-> <<"found_treatment", "renamed_success">>]
    ELSE [frame |-> setitem(d, TSR, "number",
                            np_random_uniform(state, 70 * Half, 95 * Half, d.n)),
          state |-> rk_skip(state, d.n),
          out   |-> <<"no_treatment", "created_success">>]

\* lines 126-139: rename the first such column; without one, seed the generator and
\* draw the column
infer_success(d, state) ==
  IF Len(success_cols(d)) > 0
    THEN [frame |-> rename(d, success_cols(d)[1], TSR), state |-> state,
          out |-> <<"found_treatment", "renamed_success">>]
    ELSE LET seeded == np_random_seed(Seed)
         IN [frame |-> setitem(d, TSR, "number",
                               np_random_uniform(seeded, 70 * Half, 95 * Half, d.n)),
             state |-> rk_skip(seeded, d.n),
             out   |-> <<"no_treatment", "created_success">>]

\* line 142: 100 - df_clean['treatment_success_rate'] raises when the label selects
\* more than one column (ValueError on assignment) or a cell is text (TypeError)
dropout_raises(d) ==
  \/ Cardinality(positions(d, TSR)) # 1
  \/ \E j \in positions(d, TSR) : \E i \in 1..d.n : d.data[j][i].k = "str"

\* lines 142-146: 100 - success, plus noise in [-5, 5), clipped to [0, 100]
derive_dropout(d, state) ==
  LET j     == CHOOSE j \in positions(d, TSR) : TRUE
      noise == np_random_uniform(state, (0 - 5) * Half, 5 * Half, d.n)
      base  == [i \in 1..d.n |->
                  IF isnull(d.data[j][i]) THEN NaN
                  ELSE Num(100 * Half - d.data[j][i].n)]
      noisy == [i \in 1..d.n |->
                  IF isnull(base[i]) THEN NaN ELSE Num(base[i].n + noise[i].n)]
  IN [frame |-> setitem(d, DROPOUT, d.dtypes[j], clip(noisy, 0, 100 * Half)),
      state |-> rk_skip(state, d.n)]

\* line 155: the columns whose lowercased name contains 'year' or 'date'
year_cols(d) ==
  SelectSeq(d.columns, LAMBDA col : matches_any(year_keywords, col))

\* line 162: list(range(2010, 2024))
years == [y \in 1..14 |-> Whole(2009 + y)]

\* an inference that looks for an existing 'year' column without regard to case
infer_year_anycase(d, state) ==
  IF \E j \in 1..Len(d.columns) : lower(Chars(d.columns[j])) = Chars(YEAR)
    THEN [frame |-> d, state |-> state, out |-> <<>>]
  ELSE IF Len(year_cols(d)) > 0
    THEN [frame |-> rename(d, year_cols(d)[1], YEAR), state |-> state,
          out |-> <<"renamed_year">>]
  ELSE [frame |-> setitem(d, YEAR, "number", np_random_choice(state, years, d.n)),
        state |-> rk_skip(state, d.n),
        out   |-> <<"no_year">>]

\* lines 153-163: keep 'year'; else rename the first year/date column; else draw one
infer_year(d, state) ==
  IF has_column(d, YEAR)
    THEN [frame |-> d, state |-> state, out |-> <<>>]
  ELSE IF Len(year_cols(d)) > 0
    THEN [frame |-> rename(d, year_cols(d)[1], YEAR), state |-> state,
          out |-> <<"renamed_year">>]
  ELSE [frame |-> setitem(d, YEAR, "number", np_random_choice(state, years, d.n)),
        state |-> rk_skip(state, d.n),
        out   |-> <<"no_year">>]

----------------------------------------------------------------------------
(* The inputs *)

Names == {"id", "Rate", "Date", "Year", "year", "dropout_rate", "treatment_success_rate"}

\* the headers pd.read_csv can produce: labels are distinct
Headers(names, maxc) ==
  UNION {{h \in [1..c -> names] : \A a, b \in 1..c : a # b => h[a] # h[b]} : c \in 1..maxc}

\* the files with a header of headers and up to maxr equal rows, cell j from values
UniformFiles(headers, values, maxr) ==
  UNION {{[kind |-> "csv", header |-> h, rows |-> [i \in 1..k |-> row]] :
            k \in 0..maxr, row \in [1..Len(h) -> values]} :
         h \in headers}

\* the files with header h and up to maxr rows, cell j of a row from pools[j]
CsvFiles(h, pools, maxr) ==
  LET Rows == {row \in [1..Len(h) -> UNION {pools[j] : j \in 1..Len(h)}] :
                 \A j \in 1..Len(h) : row[j] \in pools[j]}
  IN {[kind |-> "csv", header |-> h, rows |-> r] :
        r \in UNION {[1..k -> Rows] : k \in 0..maxr}}

Missing == [kind |-> "missing", header |-> <<>>, rows |-> <<>>]

Garbled == [kind |-> "garbled", header |-> <<>>, rows |-> <<>>]

----------------------------------------------------------------------------
(* The script *)

Start(sources) ==
  /\ source \in sources
  /\ pc = "load"
  /\ df = NoFrame
  /\ df_clean = NoFrame
  /\ rng \in Entropy
  /\ stdout = <<>>
  /\ cleaned_csv = NoFile
  /\ sample_csv = NoFile
  /\ run = 1

\* every header of up to MaxCols labels; each column is all 98, all text or all empty
Init ==
  Start({Missing, Garbled}
          \cup UniformFiles(Headers(Names, MaxCols), {NaN, Whole(98), Str("x")}, MaxRows))

\* one header, over the mixes of numbers, text and empty cells
InitCells ==
  Start({Missing, Garbled}
          \cup CsvFiles(<<"id", "Rate">>,
                        <<{NaN, Whole(1), Str("x")}, {NaN, Whole(1), Whole(98), Str("x")}>>,
                        MaxFillRows))

\* a load whose except branch reports the error and goes on
Load_goes_on ==
  /\ pc = "load"
  /\ IF source.kind = "missing"
       THEN /\ stdout' = Append(stdout, "file_not_found")
            /\ pc' = "aborted"
            /\ df' = df
     ELSE IF source.kind = "garbled"
       THEN /\ stdout' = Append(stdout, "error_loading")
            /\ pc' = "drop_empty"
            /\ df' = [NoFrame EXCEPT !.n = 0]
     ELSE /\ df' = read_csv(source)
          /\ stdout' = Append(stdout, "loaded")
          /\ pc' = "drop_empty"
  /\ UNCHANGED <<source, df_clean, rng, cleaned_csv, sample_csv, run>>

\* lines 21-44: exit() when the file is missing or pd.read_csv raises
Load ==
  /\ pc = "load"
  /\ IF source.kind = "missing"
       THEN /\ stdout' = Append(stdout, "file_not_found")
            /\ pc' = "aborted"
            /\ df' = df
     ELSE IF source.kind = "garbled"
       THEN /\ stdout' = Append(stdout, "error_loading")
            /\ pc' = "aborted"
            /\ df' = df
     ELSE /\ df' = read_csv(source)
          /\ stdout' = Append(stdout, "loaded")
          /\ pc' = "drop_empty"
  /\ UNCHANGED <<source, df_clean, rng, cleaned_csv, sample_csv, run>>

\* lines 87-94
DropEmptyRows ==
  /\ pc = "drop_empty"
  /\ df_clean' = dropna_all(df)
  /\ stdout' = Append(stdout, "removed_empty_rows")
  /\ pc' = "fill_numeric"
  /\ UNCHANGED <<source, df, rng, cleaned_csv, sample_csv, run>>

\* lines 104-113
FillNumericNulls ==
  /\ pc = "fill_numeric"
  /\ df_clean' = fill_numeric(df_clean)
  /\ stdout' = Append(stdout, "filled_numeric")
  /\ pc' = "infer_success"
  /\ UNCHANGED <<source, df, rng, cleaned_csv, sample_csv, run>>

\* lines 122-139
InferSuccessColumn ==
  /\ pc = "infer_success"
  /\ LET r == infer_success(df_clean, rng)
     IN /\ df_clean' = r.frame
        /\ rng' = r.state
        /\ stdout' = stdout \o r.out
  /\ pc' = "derive_dropout"
  /\ UNCHANGED <<source, df, cleaned_csv, sample_csv, run>>

\* lines 141-148: an exception here is caught nowhere and ends the script
DeriveDropout ==
  /\ pc = "derive_dropout"
  /\ IF dropout_raises(df_clean)
       THEN /\ pc' = "crashed"
            /\ stdout' = Append(stdout, "traceback")
            /\ UNCHANGED <<df_clean, rng>>
       ELSE LET r == derive_dropout(df_clean, rng)
            IN /\ df_clean' = r.frame
               /\ rng' = r.state
               /\ stdout' = Append(stdout, "created_dropout")
               /\ pc' = "infer_year"
  /\ UNCHANGED <<source, df, cleaned_csv, sample_csv, run>>

\* lines 153-163
InferYear ==
  /\ pc = "infer_year"
  /\ LET r == infer_year(df_clean, rng)
     IN /\ df_clean' = r.frame
        /\ rng' = r.state
        /\ stdout' = stdout \o r.out
  /\ pc' = "save"
  /\ UNCHANGED <<source, df, cleaned_csv, sample_csv, run>>

\* lines 180-192: the cleaned table and its first 20 rows
Save ==
  /\ pc = "save"
  /\ cleaned_csv' = to_csv(df_clean)
  /\ sample_csv' = to_csv(head(df_clean, SampleRows))
  /\ stdout' = stdout \o <<"saved", "sample_saved", "complete">>
  /\ pc' = "done"
  /\ UNCHANGED <<source, df, df_clean, rng, run>>

Next ==
  \/ Load
  \/ DropEmptyRows
  \/ FillNumericNulls
  \/ InferSuccessColumn
  \/ DeriveDropout
  \/ InferYear
  \/ Save

Spec == Init /\ [][Next]_vars

SpecCells == InitCells /\ [][Next]_vars

\* The script is one synchronous thread: a section that can run does run.
SpecLive == Init /\ [][Next]_vars /\ WF_vars(Next)

\* The script is started again on the same input: a new process, whose generator
\* starts from fresh entropy; the files the last run wrote are still there.
Rerun ==
  /\ pc \in {"done", "aborted", "crashed"}
  /\ run < MaxRuns
  /\ run' = run + 1
  /\ pc' = "load"
  /\ df' = NoFrame
  /\ df_clean' = NoFrame
  /\ rng' \in Entropy
  /\ stdout' = <<>>
  /\ UNCHANGED <<source, cleaned_csv, sample_csv>>

NextRerun == Next \/ Rerun

SpecRerun == Init /\ [][NextRerun]_vars

----------------------------------------------------------------------------
(* What the claims speak of *)

Printed(tag) == \E i \in 1..Len(stdout) : stdout[i] = tag

NumericColumns(d) == {j \in 1..Len(d.columns) : d.dtypes[j] = "number"}

Nulls(cells) == {i \in 1..Len(cells) : isnull(cells[i])}

\* the k-th smallest of the non-null numbers of cells, by counting
Kth(cells, k) ==
  LET I == (1..Len(cells)) \ Nulls(cells)
  IN CHOOSE x \in {cells[i].n : i \in I} :
       /\ Cardinality({i \in I : cells[i].n < x}) < k
       /\ k <= Cardinality({i \in I : cells[i].n <= x})

\* c is the median of the non-null numbers of cells (there is one)
IsMedianOf(c, cells) ==
  LET m == Len(cells) - Cardinality(Nulls(cells))
  IN /\ c.k = "num"
     /\ IF m % 2 = 1 THEN c.n = Kth(cells, (m + 1) \div 2)
        ELSE 2 * c.n = Kth(cells, m \div 2) + Kth(cells, m \div 2 + 1)

----------------------------------------------------------------------------
\* C1: every table that loads is cleaned to completion without failing, and the
\* cleaned table has the columns treatment_success_rate, dropout_rate and year.
C1_RunsToCompletion ==
  /\ pc # "crashed"
  /\ pc = "done" =>
       /\ has_column(df_clean, TSR)
       /\ has_column(df_clean, DROPOUT)
       /\ has_column(df_clean, YEAR)

\* C2: at Done every numeric column of the cleaned table has no null left.
C2_NoNullsAtDone ==
  pc = "done" =>
    \A j \in NumericColumns(df_clean) : Nulls(df_clean.data[j]) = {}

\* C2 (as amended): at Done every numeric column that has a non-null value has no
\* null left; a numeric column holds a null only when it is null throughout.
C2_NullsOnlyInAllNullColumns ==
  pc = "done" =>
    \A j \in NumericColumns(df_clean) :
      Nulls(df_clean.data[j]) # {} => Nulls(df_clean.data[j]) = 1..df_clean.n

\* a run that is done, with a numeric column that was loaded with a null and a number
\* and has no null left
C2_Witness ==
  /\ pc = "done"
  /\ \E j \in NumericColumns(df) :
       /\ Nulls(dropna_all(df).data[j]) # {}
       /\ Nulls(dropna_all(df).data[j]) # 1..dropna_all(df).n
       /\ j \in NumericColumns(df_clean)
       /\ Nulls(df_clean.data[j]) = {}

\* after is before with the nulls of its numeric columns filled as C3 says
FilledAsClaimed(before, after) ==
  /\ after.columns = before.columns
  /\ after.dtypes = before.dtypes
  /\ after.n = before.n
  /\ \A j \in 1..Len(before.columns) :
       LET old == before.data[j]
           new == after.data[j]
       IN /\ Len(new) = Len(old)
          /\ IF j \in NumericColumns(before) /\ Nulls(old) # 1..before.n
               THEN \A i \in 1..before.n :
                      /\ ~isnull(new[i])
                      /\ isnull(old[i]) => IsMedianOf(new[i], old)
                      /\ ~isnull(old[i]) => new[i] = old[i]
               ELSE new = old

\* C3: the fill leaves no null in a numeric column that has a non-null value, puts
\* that column's own median (of its non-null values) in every cell that was null,
\* changes no other cell, keeps an all-null numeric column as it is, and changes
\* neither a non-numeric column nor the number of rows.
C3_FillNumericNulls ==
  [][pc = "fill_numeric" => FilledAsClaimed(df_clean, df_clean')]_vars

\* the fill has run on a table with two numeric columns, one with a null and two
\* different numbers, whose medians differ
C3_Witness ==
  /\ pc = "infer_success"
  /\ LET pre == dropna_all(df)
     IN /\ NumericColumns(pre) = {1, 2}
        /\ Nulls(pre.data[2]) # {}
        /\ \E a, b \in (1..pre.n) \ Nulls(pre.data[2]) : pre.data[2][a] # pre.data[2][b]
        /\ Nulls(df_clean.data[2]) = {}
        /\ Nulls(pre.data[1]) # {}
        /\ Nulls(df_clean.data[1]) = {}
        /\ \E i \in Nulls(pre.data[1]), q \in Nulls(pre.data[2]) :
             df_clean.data[1][i] # df_clean.data[2][q]

\* the labels of Names that contain a treatment keyword, whatever the case
WithTreatmentKeyword == {"Rate", "dropout_rate", "treatment_success_rate"}

\* the labels of Names that contain 'year' or 'date', whatever the case
WithYearKeyword == {"Date", "Year", "year"}

Distinct(seq) == \A a, b \in 1..Len(seq) : a # b => seq[a] # seq[b]

\* after is before with its first column labelled in labels relabelled as label
FirstRelabelled(before, after, labels, label) ==
  LET M == {j \in 1..Len(before.columns) : before.columns[j] \in labels}
      first == CHOOSE j \in M : \A q \in M : j <= q
  IN after = [before EXCEPT !.columns[first] = label]

\* after is before with one more column, labelled label, of numbers from lo to hi
\* that are multiples of step
ColumnAdded(before, after, label, lo, hi, step) ==
  LET nc == Len(before.columns)
  IN /\ after.columns = Append(before.columns, label)
     /\ after.n = before.n
     /\ Len(after.data) = nc + 1
     /\ Len(after.dtypes) = nc + 1
     /\ \A j \in 1..nc : after.data[j] = before.data[j] /\ after.dtypes[j] = before.dtypes[j]
     /\ Len(after.data[nc + 1]) = before.n
     /\ \A i \in 1..before.n :
          /\ after.data[nc + 1][i].k = "num"
          /\ lo <= after.data[nc + 1][i].n
          /\ after.data[nc + 1][i].n <= hi
          /\ after.data[nc + 1][i].n % step = 0

\* C4: on a table that already has a column treatment_success_rate the success
\* inference is a no-op: nothing is renamed or added, no value changes, and the
\* column names stay pairwise distinct.
C4_NoOpWhenPresent ==
  [][(pc = "infer_success" /\ has_column(df_clean, TSR))
       => (df_clean' = df_clean /\ Distinct(df_clean'.columns))]_vars

\* C5: every dropout_rate is min(100, max(0, 100 - treatment_success_rate + n)) for
\* a noise n in [-5, 5] (null where the success rate is null), so it lies in
\* [0, 100] when the success rate does.
C5_DropoutClamped ==
  (pc \in {"infer_year", "save", "done"}) =>
    LET t == df_clean.data[CHOOSE j \in positions(df_clean, TSR) : TRUE]
        d == df_clean.data[CHOOSE j \in positions(df_clean, DROPOUT) : TRUE]
        Min(a, b) == IF a < b THEN a ELSE b
        Max(a, b) == IF a > b THEN a ELSE b
    IN /\ Len(d) = df_clean.n
       /\ \A i \in 1..df_clean.n :
            IF isnull(t[i]) THEN isnull(d[i])
            ELSE /\ d[i].k = "num"
                 /\ \E n \in ((0 - 5) * Half)..(5 * Half) :
                      d[i].n = Min(100 * Half, Max(0, 100 * Half - t[i].n + n))
                 /\ (0 <= t[i].n /\ t[i].n <= 100 * Half)
                      => (0 <= d[i].n /\ d[i].n <= 100 * Half)

\* the dropout of a row is clamped at 0 and that of another row at 100
C5_Witness ==
  /\ pc = "infer_year"
  /\ LET t == df_clean.data[CHOOSE j \in positions(df_clean, TSR) : TRUE]
         d == df_clean.data[CHOOSE j \in positions(df_clean, DROPOUT) : TRUE]
     IN \E a, b \in 1..df_clean.n :
          /\ t[a] = Whole(98) /\ d[a] = Whole(0)
          /\ t[b] = Whole(1) /\ d[b] = Whole(100)

\* C6: when a column name contains a treatment keyword, whatever the case, exactly
\* the first such column is renamed to treatment_success_rate, nothing else changes
\* and nothing is drawn; only when none does is the column added, one value in
\* [70, 95] for every row.
C6_InferSuccessColumn ==
  [][pc = "infer_success" =>
       IF \E j \in 1..Len(df_clean.columns) : df_clean.columns[j] \in WithTreatmentKeyword
         THEN /\ FirstRelabelled(df_clean, df_clean', WithTreatmentKeyword, TSR)
              /\ rng' = rng
         ELSE ColumnAdded(df_clean, df_clean', TSR, 70 * Half, 95 * Half, 1)]_vars

\* the inference has run on a table with two columns that contain a keyword, the
\* first in upper case, and renamed the first
C6_Witness ==
  /\ pc = "derive_dropout"
  /\ df.columns = <<"Rate", "dropout_rate">>
  /\ df.n = MaxRows
  /\ df_clean.columns = <<TSR, "dropout_rate">>
  /\ df_clean.data = df.data

\* C7: with a column named exactly 'year' the table is left as it is; else the first
\* column whose name contains 'year' or 'date', whatever the case, is renamed to
\* 'year' and nothing else changes; else a column 'year' is added, an integer in
\* [2010, 2023] for every row.
C7_InferYearColumn ==
  [][pc = "infer_year" =>
       IF has_column(df_clean, YEAR)
         THEN df_clean' = df_clean /\ rng' = rng
       ELSE IF \E j \in 1..Len(df_clean.columns) : df_clean.columns[j] \in WithYearKeyword
         THEN /\ FirstRelabelled(df_clean, df_clean', WithYearKeyword, YEAR)
              /\ rng' = rng
       ELSE ColumnAdded(df_clean, df_clean', YEAR, 2010 * Half, 2023 * Half, Half)]_vars

\* the inference has run on a table with the columns Date and Year and no 'year',
\* and renamed Date
C7_Witness ==
  /\ pc = "save"
  /\ df.columns = <<"Date", "Year">>
  /\ df.n = MaxRows
  /\ SubSeq(df_clean.columns, 1, 2) = <<YEAR, "Year">>
  /\ Printed("renamed_year")

\* C8: when the source is missing or cannot be parsed the run aborts at the load,
\* once: no cleaning stage runs, nothing of the run goes on, and neither the cleaned
\* file nor the preview is written.
C8_AbortIsTerminal ==
  source.kind # "csv" =>
    /\ pc \in {"load", "aborted"}
    /\ df = NoFrame
    /\ df_clean = NoFrame
    /\ cleaned_csv = NoFile
    /\ sample_csv = NoFile
    /\ pc = "aborted" =>
         /\ stdout \in {<<"file_not_found">>, <<"error_loading">>}
         /\ ~ENABLED Next

\* a run on a source that cannot be parsed has aborted
C8_Witness ==
  /\ pc = "aborted"
  /\ source.kind = "garbled"
  /\ stdout = <<"error_loading">>

\* the 'year' column of a written file
YearColumnOf(file) ==
  LET j == CHOOSE j \in 1..Len(file.header) : file.header[j] = YEAR
  IN [i \in 1..Len(file.rows) |-> file.rows[i][j]]

\* C9: two runs on the same table that both draw the 'year' column draw the same
\* column: the second run is about to write the years the first run wrote.
C9_YearDeterministic ==
  (run > 1 /\ pc = "save" /\ Printed("no_year") /\ cleaned_csv.written)
    => YearColumnOf(to_csv(df_clean)) = YearColumnOf(cleaned_csv)

\* the values the seeded generator draws for n rows
SeededSuccess(n) ==
  [i \in 1..n |-> Num(70 * Half + (rk_states(Seed % RngMod, n)[i] * 25 * Half) \div RngMod)]

\* C10: a run that draws the success column draws the values the seed fixes for
\* its number of rows, whatever state the generator was in before.
C10_SyntheticSuccessReproducible ==
  (Printed("created_success") /\ pc = "derive_dropout") =>
    df_clean.data[CHOOSE j \in positions(df_clean, TSR) : TRUE] = SeededSuccess(df_clean.n)

\* the success column has been drawn for MaxRows rows by a generator that did not
\* start in the seeded state
C10_Witness ==
  /\ pc = "derive_dropout"
  /\ Printed("created_success")
  /\ df_clean.n = MaxRows
  /\ df_clean.n > 1
  /\ \E e \in Entropy : e # Seed % RngMod /\ rng = rk_skip(Seed % RngMod, df_clean.n)

\* the stage that follows stage p in the order the claim gives
StageAfter(p) ==
  CASE p = "load" -> "drop_empty"
    [] p = "drop_empty" -> "fill_numeric"
    [] p = "fill_numeric" -> "infer_success"
    [] p = "infer_success" -> "derive_dropout"
    [] p = "derive_dropout" -> "infer_year"
    [] p = "infer_year" -> "save"
    [] p = "save" -> "done"
    [] OTHER -> "none"

\* every step of a run whose load succeeds ends one stage and starts the next one
\* of the order, on the table the stage before left
C11_StageOrder ==
  [][source.kind = "csv" =>
       /\ pc' = StageAfter(pc)
       /\ pc # "load" => df' = df
       /\ pc = "drop_empty" => df_clean = NoFrame
       /\ pc \notin {"load", "drop_empty"} => df_clean # NoFrame]_vars

\* C11: a run whose load succeeds goes through Load, DropEmptyRows,
\* FillNumericNulls, InferSuccessColumn, DeriveDropout and InferYear in that order,
\* each once and on the output of the one before, never back to an earlier one, and
\* goes on until Done; dropout_rate is derived only once the success column is there.
C11_StagesInOrderToDone ==
  /\ C11_StageOrder
  /\ [](source.kind = "csv" =>
          /\ pc # "done" => ENABLED Next
          /\ Printed("created_dropout") =>
               (Printed("renamed_success") \/ Printed("created_success")))

=============================================================================
